---- MODULE Spec2Model ----
(***************************************************************************)
(* Model of the H->ZZ->4l event-processing pipeline of                     *)
(* "Combination workflow/HZZAnalysis-Combination.ipynb":                   *)
(*   get_data_from_files -> read_file (batch loop: calc_weight,            *)
(*   cut_lep_charge, cut_lep_type, calc_mllll) -> save_histograms_to_root. *)
(*                                                                         *)
(* Numbers.  The notebook computes in floating point; the model computes   *)
(* exactly: weights are rationals <<n, d>> in lowest terms (d > 0),        *)
(* momenta and masses are integers.  Leptons are restricted to the         *)
(* transverse x axis (eta = 0, phi = 0 or 180 degrees), so that the        *)
(* four-vector sum and its invariant mass are integer computations.        *)
(***************************************************************************)
EXTENDS Integers, Sequences, FiniteSets, TLC

(***************************************************************************)
(* Bounds of the model.                                                    *)
(***************************************************************************)
\* largest number of events stored in one file
MaxEvents == 2

(***************************************************************************)
(* Exact arithmetic.                                                       *)
(***************************************************************************)
Abs(x) == IF x < 0 THEN -x ELSE x

Min(a, b) == IF a <= b THEN a ELSE b

RECURSIVE GCD(_, _)
GCD(a, b) == IF b = 0 THEN a ELSE GCD(b, a % b)

\* the rational n/d in lowest terms, d # 0
Rat(n, d) ==
    LET g == GCD(Abs(n), Abs(d))
        s == IF d < 0 THEN -1 ELSE 1
    IN  <<(s * n) \div g, (s * d) \div g>>

RInt(k) == <<k, 1>>

RMul(a, b) == Rat(a[1] * b[1], a[2] * b[2])

RAdd(a, b) == Rat(a[1] * b[2] + b[1] * a[2], a[2] * b[2])

\* sum of ws[lo..hi], by halves
RECURSIVE RSumRange(_, _, _)
RSumRange(ws, lo, hi) ==
    IF lo > hi THEN RInt(0)
    ELSE IF lo = hi THEN ws[lo]
    ELSE LET mid == (lo + hi) \div 2
         IN  RAdd(RSumRange(ws, lo, mid), RSumRange(ws, mid + 1, hi))

RSum(ws) == RSumRange(ws, 1, Len(ws))

\* floor of the square root of x >= 0
ISqrt(x) == CHOOSE r \in 0..x : r * r <= x /\ x < (r + 1) * (r + 1)

RECURSIVE SumSeq(_)
SumSeq(s) == IF s = <<>> THEN 0 ELSE s[1] + SumSeq(Tail(s))

(***************************************************************************)
(* Configuration cell ("Lumi, fraction, file path") and units.             *)
(***************************************************************************)
lumi == 10

\* MeV = 0.001: the factor is applied as a division by 1000
MeV == 1000

\* values the user may give the global `fraction`, as <<numerator, denominator>>
Fractions == {<<1, 1>>, <<1, 2>>, <<2, 3>>}

(***************************************************************************)
(* The category-to-sample-list mapping `samples`, in dictionary order.     *)
(***************************************************************************)
SignalName == "Signal ($m_H$ = 125 GeV)"

CategoryOrder ==
    <<"data", "Background $Z,t\\bar{t}$", "Background $ZZ^*$", SignalName>>

samples ==
    [s \in {CategoryOrder[i] : i \in 1..Len(CategoryOrder)} |->
        CASE s = "data" -> <<"data_A", "data_B", "data_C", "data_D">>
          [] s = "Background $Z,t\\bar{t}$" -> <<"Zee", "Zmumu", "ttbar_lep">>
          [] s = "Background $ZZ^*$" -> <<"llll">>
          [] OTHER ->
               <<"ggH125_ZZ4lep", "VBFH125_ZZ4lep", "WH125_ZZ4lep", "ZH125_ZZ4lep">>]

Categories == DOMAIN samples

\* (variant: the identifier compared with 'data' as a whole)
ContainsDataExact(sample) == sample = "data"

\* Python's `'data' in sample`
ContainsData(sample) ==
    \E i \in 1..(Len(sample) - 3) : SubSeq(sample, i, i + 3) = "data"

(***************************************************************************)
(* Events.  An event holds the per-lepton columns read by tree.iterate and *)
(* the Monte Carlo weight columns.  Momenta and energies are stored in     *)
(* MeV.                                                                    *)
(***************************************************************************)
Event(pt, phi, E, charge, type, mc, pileup, ele, muon, trig) ==
    [lep_pt |-> pt, lep_phi |-> phi, lep_E |-> E,
     lep_charge |-> charge, lep_type |-> type,
     mcWeight |-> mc, scaleFactor_PILEUP |-> pileup, scaleFactor_ELE |-> ele,
     scaleFactor_MUON |-> muon, scaleFactor_LepTRIGGER |-> trig]

One == RInt(1)

Half == Rat(1, 2)

\* 4e, charges +-+-, m4l = 125, unit weights
Ev4e125 ==
    Event(<<30000, 30000, 20000, 20000>>, <<0, 180, 0, 180>>,
          <<35000, 35000, 30000, 25000>>,
          <<1, -1, 1, -1>>, <<11, 11, 11, 11>>, One, One, One, One, One)

\* 2e2mu, charges ++--, m4l = 180 (the upper edge of the histogram range)
Ev2e2mu180 ==
    Event(<<45000, 45000, 45000, 45000>>, <<0, 180, 0, 180>>,
          <<45000, 45000, 45000, 45000>>,
          <<1, 1, -1, -1>>, <<11, 11, 13, 13>>, One, Half, One, Rat(3, 2), One)

\* 4mu with charge sum 2: rejected by the charge cut
EvCharge2 ==
    Event(<<20000, 20000, 15000, 15000>>, <<0, 180, 0, 180>>,
          <<20000, 20000, 15000, 15000>>,
          <<1, 1, 1, -1>>, <<13, 13, 13, 13>>, One, One, One, One, One)

\* 3e1mu (type sum 46): rejected by the flavour cut
EvType46 ==
    Event(<<40000, 40000, 40000, 40000>>, <<0, 180, 0, 180>>,
          <<40000, 40000, 40000, 40000>>,
          <<1, -1, 1, -1>>, <<11, 11, 11, 13>>, One, One, One, One, One)

\* five leptons; the first four are 4mu, charge 0, m4l = 69; negative mcWeight
Ev5lep69 ==
    Event(<<10000, 10000, 0, 0, 50000>>, <<0, 180, 0, 180, 0>>,
          <<20000, 20000, 15000, 14000, 50000>>,
          <<1, -1, 1, -1, 1>>, <<13, 13, 13, 13, 11>>,
          RInt(-1), One, One, One, Half)

\* only three leptons
Ev3lep ==
    Event(<<30000, 30000, 20000>>, <<0, 180, 0>>, <<35000, 35000, 30000>>,
          <<1, -1, 1>>, <<11, 11, 11>>, One, One, One, One, One)

\* type codes 11,11,11,15: type sum 48 without being 2e2mu; m4l = 181
EvTau181 ==
    Event(<<0, 0, 0, 0>>, <<0, 180, 0, 180>>, <<46000, 45000, 45000, 45000>>,
          <<-1, 1, 1, -1>>, <<11, 11, 11, 15>>, One, One, One, One, One)

\* 4mu, m4l = 120 from a boosted system (E = 130, px = 50), mcWeight 2
Ev4mu120 ==
    Event(<<50000, 10000, 10000, 0>>, <<0, 0, 180, 0>>,
          <<50000, 30000, 30000, 20000>>,
          <<-1, -1, 1, 1>>, <<13, 13, 13, 13>>, RInt(2), One, One, One, One)

EventPool ==
    {Ev4e125, Ev2e2mu180, EvCharge2, EvType46, Ev5lep69, Ev3lep, EvTau181, Ev4mu120}

\* the contents a file may have: at most MaxEvents events of the pool
FileContents == UNION {[1..n -> EventPool] : n \in 0..MaxEvents}

(***************************************************************************)
(* The metadata table infofile.infos: per simulated sample the dataset id, *)
(* the cross-section, the sum of generator weights and the reduction       *)
(* efficiency.  A run uses one of four tables: a complete one, one with    *)
(* the entry of Zmumu absent, one whose ttbar_lep entry has sumw = 0, one  *)
(* whose Zee entry has red_eff = 0.                                        *)
(***************************************************************************)
SampleIds == UNION {{samples[s][i] : i \in 1..Len(samples[s])} : s \in Categories}

McSampleIds == {v \in SampleIds : ~ContainsData(v)}

InfoEntry(v) ==
    CASE v \in {"ggH125_ZZ4lep", "VBFH125_ZZ4lep", "WH125_ZZ4lep", "ZH125_ZZ4lep"} ->
           [DSID |-> "3451", xsec |-> 1, sumw |-> 100000, red_eff |-> 1]
      [] v = "Zee" -> [DSID |-> "3611", xsec |-> 2, sumw |-> 1000, red_eff |-> 4]
      [] OTHER -> [DSID |-> "3630", xsec |-> 1, sumw |-> 20000, red_eff |-> 1]

InfosComplete == [v \in McSampleIds |-> InfoEntry(v)]

InfosNoZmumu == [v \in McSampleIds \ {"Zmumu"} |-> InfoEntry(v)]

InfosZeroSumw ==
    [v \in McSampleIds |->
        IF v = "ttbar_lep" THEN [InfoEntry(v) EXCEPT !.sumw = 0] ELSE InfoEntry(v)]

InfosZeroRedEff ==
    [v \in McSampleIds |->
        IF v = "Zee" THEN [InfoEntry(v) EXCEPT !.red_eff = 0] ELSE InfoEntry(v)]

InfoTables == {InfosComplete, InfosNoZmumu, InfosZeroSumw, InfosZeroRedEff}

(***************************************************************************)
(* State.                                                                  *)
(***************************************************************************)
VARIABLES
    fraction,     \* the global `fraction`, <<numerator, denominator>>
    step_size,    \* entries per batch of tree.iterate
    files,        \* sample identifier -> the events stored in its file
    infos,        \* infofile.infos
    pc,           \* position of the notebook's control flow
    err,          \* "none" or the exception that propagated out
    s_idx,        \* get_data_from_files: position of `s` in samples
    val_idx,      \* get_data_from_files: position of `val` in samples[s]['list']
    frames,       \* get_data_from_files: list of arrays of the current category
    data,         \* get_data_from_files: category -> concatenated array
    path,         \* read_file: the file name
    numevents,    \* read_file: tree.num_entries
    xsec_weight,  \* read_file: cross-section weight, NoValue while unbound
    data_all,     \* read_file: list of the arrays of the batches
    entry,        \* tree.iterate: number of entries delivered so far
    handles,      \* number of open file handles
    nIn_sum,      \* sum of nIn over the batches of the current file
    loop,         \* read_file: the loop body's last evaluation (see LoopBody)
    result,       \* the global `data` returned by get_data_from_files
    mc_idx,       \* save_histograms_to_root: position of `s` in samples
    root_file,    \* ATLAS_histograms.root: key -> histogram, NoValue if absent
    stdout        \* the lines printed so far, without the elapsed times

vars ==
    <<fraction, step_size, files, infos, pc, err, s_idx, val_idx, frames, data,
      path, numevents, xsec_weight, data_all, entry, handles, nIn_sum, loop,
      result, mc_idx, root_file, stdout>>

NoValue == <<>>

\* the loop variables `s` and `val` of get_data_from_files
CurS == CategoryOrder[s_idx]

CurVal == samples[CurS][val_idx]

(***************************************************************************)
(* Weights.                                                                *)
(***************************************************************************)
\* get_xsec_weight is applied once the caller has checked the key and the divisor
\* (variant: the weight scaled by the fraction of the data read)
get_xsec_weight_fraction(sample) ==
    LET info == infos[sample]
    IN  Rat(lumi * 1000 * info.xsec * fraction[1],
            info.sumw * info.red_eff * fraction[2])

\* get_xsec_weight
get_xsec_weight(sample) ==
    LET info == infos[sample]
    IN  Rat(lumi * 1000 * info.xsec, info.sumw * info.red_eff)

\* calc_weight for one event: the left-to-right product
calc_weight(xsec_w, ev) ==
    RMul(RMul(RMul(RMul(RMul(xsec_w, ev.mcWeight), ev.scaleFactor_PILEUP),
                   ev.scaleFactor_ELE), ev.scaleFactor_MUON),
         ev.scaleFactor_LepTRIGGER)

(***************************************************************************)
(* Kinematics.  p4[:, i] of a lepton on the x axis: px = +pt or -pt.       *)
(***************************************************************************)
Px(ev, i) == IF ev.lep_phi[i] = 0 THEN ev.lep_pt[i] ELSE -ev.lep_pt[i]

\* (variant: the four-momenta of all leptons of the event summed)
calc_mllll_all(ev) ==
    LET E  == SumSeq(ev.lep_E) \div MeV
        px == SumSeq([i \in 1..Len(ev.lep_pt) |-> Px(ev, i)]) \div MeV
    IN  ISqrt(E * E - px * px)

\* (p4[:,0] + p4[:,1] + p4[:,2] + p4[:,3]).M * MeV for one event with at
\* least four leptons; the scaling by MeV is applied to the summed components
calc_mllll(ev) ==
    LET E  == (ev.lep_E[1] + ev.lep_E[2] + ev.lep_E[3] + ev.lep_E[4]) \div MeV
        px == (Px(ev, 1) + Px(ev, 2) + Px(ev, 3) + Px(ev, 4)) \div MeV
    IN  ISqrt(E * E - px * px)

(***************************************************************************)
(* Cuts.  Each takes the column of a batch and returns the rejection mask, *)
(* one boolean per event; x[:, 3] raises when an event has fewer than four *)
(* leptons, which the caller decides with ShortEvent before calling.       *)
(***************************************************************************)
ShortEvent(batch) == \E i \in 1..Len(batch) : Len(batch[i].lep_charge) < 4

\* (variant: the charges of all leptons summed)
cut_lep_charge_all(lep_charge) ==
    [i \in 1..Len(lep_charge) |-> SumSeq(lep_charge[i]) # 0]

cut_lep_charge(lep_charge) ==
    [i \in 1..Len(lep_charge) |->
        lep_charge[i][1] + lep_charge[i][2] + lep_charge[i][3] + lep_charge[i][4] # 0]

\* (variant: the eemumu sum 48 forgotten)
cut_lep_type_no_eemumu(lep_type) ==
    [i \in 1..Len(lep_type) |->
        LET sum_lep_type ==
                lep_type[i][1] + lep_type[i][2] + lep_type[i][3] + lep_type[i][4]
        IN  (sum_lep_type # 44) /\ (sum_lep_type # 52)]

cut_lep_type(lep_type) ==
    [i \in 1..Len(lep_type) |->
        LET sum_lep_type ==
                lep_type[i][1] + lep_type[i][2] + lep_type[i][3] + lep_type[i][4]
        IN  (sum_lep_type # 44) /\ (sum_lep_type # 48) /\ (sum_lep_type # 52)]

Column(batch, f) == [i \in 1..Len(batch) |-> batch[i][f]]

\* data[~mask]: the events whose mask entry is FALSE, in order
RECURSIVE Keep(_, _)
Keep(batch, mask) ==
    IF batch = <<>> THEN <<>>
    ELSE (IF mask[1] THEN <<>> ELSE <<batch[1]>>) \o Keep(Tail(batch), Tail(mask))

\* ak.concatenate of a non-empty list of arrays
RECURSIVE Concatenate(_)
Concatenate(arrays) ==
    IF arrays = <<>> THEN <<>> ELSE arrays[1] \o Concatenate(Tail(arrays))

(***************************************************************************)
(* read_file: the batches of tree.iterate and the body of the loop.        *)
(***************************************************************************)
\* batch sizes tree.iterate may use: one event, or a whole file
StepSizes == {1, MaxEvents}

\* entry_stop = numevents*fraction, clamped to the tree and truncated to an
\* integer by uproot
EntryStop == Min(numevents, (numevents * fraction[1]) \div fraction[2])

\* (variant: batches never cut at entry_stop)
BatchStopWhole(start) == Min(start + step_size, numevents)

\* the entry at which the batch starting after `start` ends
BatchStop(start) == Min(start + step_size, EntryStop)

\* entries a+1..b of the file of `sample`, each tagged with where it came from
Deliver(sample, a, b) ==
    [k \in 1..(b - a) |->
        files[sample][a + k] @@ [sample |-> sample, entry |-> a + k]]

\* data['totalWeight'] = calc_weight(xsec_weight, data), simulation only
AttachWeight(sample, d) ==
    IF ~ContainsData(sample)
    THEN [i \in 1..Len(d) |-> d[i] @@ [totalWeight |-> calc_weight(xsec_weight, d[i])]]
    ELSE d

\* data = data[~cut_lep_charge(data.lep_charge)]
ApplyChargeCut(d) == Keep(d, cut_lep_charge(Column(d, "lep_charge")))

\* (variant: the flavour cut not applied)
ApplyTypeCutOnly(d) == d

\* data = data[~cut_lep_type(data.lep_type)]
ApplyTypeCut(d) == Keep(d, cut_lep_type(Column(d, "lep_type")))

\* data['mllll'] = calc_mllll(...)
AttachMass(d) == [i \in 1..Len(d) |-> d[i] @@ [mllll |-> calc_mllll(d[i])]]

\* the loop body on a batch without short events
LoopBody(sample, raw) ==
    LET weighted == AttachWeight(sample, raw)
        charged  == ApplyChargeCut(weighted)
    IN  [sample |-> sample,
         nIn |-> Len(raw),
         weighted |-> weighted,
         rej_charge |-> cut_lep_charge(Column(weighted, "lep_charge")),
         charged |-> charged,
         rej_type |-> cut_lep_type(Column(charged, "lep_type")),
         out |-> AttachMass(ApplyTypeCut(charged))]

\* the loop body on a batch with a short event: lep_charge[:, 3] raises
LoopBodyRaises(sample, raw) ==
    [sample |-> sample, nIn |-> Len(raw), weighted |-> AttachWeight(sample, raw),
     rej_charge |-> NoValue, charged |-> NoValue, rej_type |-> NoValue,
     out |-> NoValue]

(***************************************************************************)
(* Exceptions: nothing in the notebook catches one, so it ends the run.    *)
(***************************************************************************)
Raise(e) == pc' = "raised" /\ err' = e

GetDataVars == <<s_idx, val_idx, frames, data>>

ReadFileVars == <<path, numevents, xsec_weight, data_all, entry, nIn_sum, loop>>

InputVars == <<fraction, step_size, files, infos>>

ExportVars == <<result, mc_idx, root_file>>

(***************************************************************************)
(* get_data_from_files.                                                    *)
(***************************************************************************)
\* for s in samples: frames = []
ForCategory ==
    /\ pc = "for_s"
    /\ s_idx <= Len(CategoryOrder)
    /\ frames' = <<>>
    /\ val_idx' = 1
    /\ pc' = "for_val"
    /\ stdout' = Append(stdout, <<"Processing samples", CurS>>)
    /\ UNCHANGED <<InputVars, ReadFileVars, ExportVars, err, s_idx, data, handles>>

\* for val in samples[s]['list']: prefix and fileString
ResolvePath ==
    /\ pc = "for_val"
    /\ val_idx <= Len(samples[CurS])
    /\ CurS = "data" \/ CurVal \in DOMAIN infos
    /\ path' = (IF CurS = "data" THEN "Data/"
                ELSE "MC/mc_" \o infos[CurVal].DSID \o ".")
               \o CurVal \o ".4lep.root"
    /\ pc' = "open"
    /\ UNCHANGED <<stdout, InputVars, GetDataVars, ExportVars, err, numevents, xsec_weight,
                   data_all, entry, nIn_sum, loop, handles>>

\* infofile.infos[val] of an absent sample
ResolvePathKeyError ==
    /\ pc = "for_val"
    /\ val_idx <= Len(samples[CurS])
    /\ CurS # "data" /\ CurVal \notin DOMAIN infos
    /\ Raise("KeyError")
    /\ UNCHANGED <<stdout, InputVars, GetDataVars, ReadFileVars, ExportVars, handles>>

\* data[s] = ak.concatenate(frames)
ConcatCategory ==
    /\ pc = "for_val"
    /\ val_idx > Len(samples[CurS])
    /\ data' = (CurS :> Concatenate(frames)) @@ data
    /\ s_idx' = s_idx + 1
    /\ pc' = "for_s"
    /\ UNCHANGED <<stdout, InputVars, ReadFileVars, ExportVars, err, val_idx, frames, handles>>

\* return data
ReturnData ==
    /\ pc = "for_s"
    /\ s_idx > Len(CategoryOrder)
    /\ result' = data
    /\ pc' = "save_data"
    /\ stdout' = Append(stdout, <<"Time taken">>)
    /\ UNCHANGED <<InputVars, GetDataVars, ReadFileVars, err, handles, mc_idx,
                   root_file>>

(***************************************************************************)
(* read_file.                                                              *)
(***************************************************************************)
\* (variant: the failing sample skipped, the loop going on with the next)
OpenTreeFailsSkipped ==
    /\ pc = "open"
    /\ val_idx' = val_idx + 1
    /\ pc' = "for_val"
    /\ stdout' = Append(stdout, <<"Processing", CurVal>>)
    /\ UNCHANGED <<InputVars, ReadFileVars, ExportVars, err, s_idx, frames, data,
                   handles>>

\* uproot.open fails: the file is missing, unreadable or corrupt
OpenTreeFails ==
    /\ pc = "open"
    /\ Raise("OSError")
    /\ stdout' = Append(stdout, <<"Processing", CurVal>>)
    /\ UNCHANGED <<InputVars, GetDataVars, ReadFileVars, ExportVars, handles>>

\* (variant: the division by zero gives an infinite weight and the run goes on)
OpenTreeZeroDivisionInf ==
    /\ pc = "open"
    /\ ~ContainsData(CurVal)
    /\ CurVal \in DOMAIN infos
    /\ infos[CurVal].sumw * infos[CurVal].red_eff = 0
    /\ handles' = handles + 1
    /\ numevents' = Len(files[CurVal])
    /\ xsec_weight' = <<1, 0>>
    /\ data_all' = <<>>
    /\ entry' = 0
    /\ nIn_sum' = 0
    /\ loop' = NoValue
    /\ pc' = "iterate"
    /\ stdout' = Append(stdout, <<"Processing", CurVal>>)
    /\ UNCHANGED <<InputVars, GetDataVars, ExportVars, err, path>>

\* get_xsec_weight divides by sumw*red_eff = 0 inside the with block
OpenTreeZeroDivision ==
    /\ pc = "open"
    /\ ~ContainsData(CurVal)
    /\ CurVal \in DOMAIN infos
    /\ infos[CurVal].sumw * infos[CurVal].red_eff = 0
    /\ numevents' = Len(files[CurVal])
    /\ data_all' = <<>>
    /\ loop' = NoValue
    /\ handles' = (handles + 1) - 1   \* the with block is entered and left
    /\ Raise("ZeroDivisionError")
    /\ stdout' = Append(stdout, <<"Processing", CurVal>>)
    /\ UNCHANGED <<InputVars, GetDataVars, ExportVars, path, xsec_weight, entry,
                   nIn_sum>>

\* with uproot.open(...) as tree: numevents, xsec_weight
OpenTree ==
    /\ pc = "open"
    /\ ContainsData(CurVal)
       \/ (CurVal \in DOMAIN infos /\ infos[CurVal].sumw * infos[CurVal].red_eff # 0)
    /\ handles' = handles + 1
    /\ numevents' = Len(files[CurVal])
    /\ xsec_weight' = IF ContainsData(CurVal) THEN xsec_weight
                      ELSE get_xsec_weight(CurVal)
    /\ data_all' = <<>>
    /\ entry' = 0
    /\ nIn_sum' = 0
    /\ loop' = NoValue
    /\ pc' = "iterate"
    /\ stdout' = Append(stdout, <<"Processing", CurVal>>)
    /\ UNCHANGED <<InputVars, GetDataVars, ExportVars, err, path>>

\* (variant: the number of events before the cuts printed as nOut)
IterateBatchPrintsIn ==
    /\ pc = "iterate"
    /\ entry < EntryStop
    /\ LET raw == Deliver(CurVal, entry, BatchStop(entry))
       IN  /\ ~ShortEvent(raw)
           /\ loop' = LoopBody(CurVal, raw)
           /\ nIn_sum' = nIn_sum + Len(raw)
           /\ data_all' = Append(data_all, loop'.out)
           /\ entry' = entry + Len(raw)
           /\ stdout' = Append(stdout, <<"nIn nOut", Len(raw), Len(raw)>>)
    /\ UNCHANGED <<InputVars, GetDataVars, ExportVars, pc, err, path, numevents,
                   xsec_weight, handles>>

\* one batch of tree.iterate through the loop body; the elapsed time of the
\* printed line is left out
IterateBatch ==
    /\ pc = "iterate"
    /\ entry < EntryStop
    /\ LET raw == Deliver(CurVal, entry, BatchStop(entry))
       IN  /\ ~ShortEvent(raw)
           /\ loop' = LoopBody(CurVal, raw)
           /\ nIn_sum' = nIn_sum + Len(raw)
           /\ data_all' = Append(data_all, loop'.out)
           /\ entry' = entry + Len(raw)
           /\ stdout' = Append(stdout, <<"nIn nOut", Len(raw), Len(loop'.out)>>)
    /\ UNCHANGED <<InputVars, GetDataVars, ExportVars, pc, err, path, numevents,
                   xsec_weight, handles>>

\* a batch holding an event with fewer than four leptons
IterateBatchIndexError ==
    /\ pc = "iterate"
    /\ entry < EntryStop
    /\ LET raw == Deliver(CurVal, entry, BatchStop(entry))
       IN  /\ ShortEvent(raw)
           /\ loop' = LoopBodyRaises(CurVal, raw)
           /\ nIn_sum' = nIn_sum + Len(raw)
           /\ entry' = entry + Len(raw)
    /\ handles' = handles - 1
    /\ Raise("IndexError")
    /\ UNCHANGED <<stdout, InputVars, GetDataVars, ExportVars, path, numevents, xsec_weight,
                   data_all>>

\* (variant: the file left open when the loop ends)
ExhaustIterateLeak ==
    /\ pc = "iterate"
    /\ entry >= EntryStop
    /\ pc' = "return"
    /\ UNCHANGED <<stdout, InputVars, GetDataVars, ReadFileVars, ExportVars, err, handles>>

\* the iteration is exhausted: the with block is left
ExhaustIterate ==
    /\ pc = "iterate"
    /\ entry >= EntryStop
    /\ handles' = handles - 1
    /\ pc' = "return"
    /\ UNCHANGED <<stdout, InputVars, GetDataVars, ReadFileVars, ExportVars, err>>

\* (variant: the array of a file put in front of the earlier ones)
ReturnFilePrepend ==
    /\ pc = "return"
    /\ data_all # <<>>
    /\ frames' = <<Concatenate(data_all)>> \o frames
    /\ val_idx' = val_idx + 1
    /\ pc' = "for_val"
    /\ UNCHANGED <<stdout, InputVars, ReadFileVars, ExportVars, err, s_idx, data, handles>>

\* return ak.concatenate(data_all); frames.append(temp)
ReturnFile ==
    /\ pc = "return"
    /\ data_all # <<>>
    /\ frames' = Append(frames, Concatenate(data_all))
    /\ val_idx' = val_idx + 1
    /\ pc' = "for_val"
    /\ UNCHANGED <<stdout, InputVars, ReadFileVars, ExportVars, err, s_idx, data, handles>>

\* ak.concatenate([]) raises: no batch was yielded
ReturnFileValueError ==
    /\ pc = "return"
    /\ data_all = <<>>
    /\ Raise("ValueError")
    /\ UNCHANGED <<stdout, InputVars, GetDataVars, ReadFileVars, ExportVars, handles>>

(***************************************************************************)
(* Histograms.  A TH1F has bins 0 (underflow), 1..nbins, nbins+1           *)
(* (overflow); sumw2 is NoValue until ROOT allocates it.                   *)
(***************************************************************************)
n_bins == 36

xmin == 70

xmax == 180

TH1F(nbins, lo, hi) ==
    [nbins |-> nbins, xmin |-> lo, xmax |-> hi,
     content |-> [b \in 0..(nbins + 1) |-> RInt(0)], sumw2 |-> NoValue]

\* TAxis::FindBin with fixed bins: [lo, hi) in nbins bins of equal width
FindBin(h, x) ==
    IF x < h.xmin THEN 0
    ELSE IF x >= h.xmax THEN h.nbins + 1
    ELSE 1 + (h.nbins * (x - h.xmin)) \div (h.xmax - h.xmin)

\* (variant: the weight ignored)
FillUnweighted(h, x, w) ==
    LET bin == FindBin(h, x)
    IN  [h EXCEPT !.content[bin] = RAdd(@, One)]

\* one step of TH1::DoFillN: Sumw2() is allocated on the first weight # 1,
\* from the contents so far
Fill(h, x, w) ==
    LET bin == FindBin(h, x)
        s2  == IF h.sumw2 = NoValue /\ w # One
               THEN [b \in DOMAIN h.content |-> Rat(Abs(h.content[b][1]), h.content[b][2])]
               ELSE h.sumw2
    IN  [h EXCEPT !.content[bin] = RAdd(@, w),
                  !.sumw2 = IF s2 = NoValue THEN NoValue
                            ELSE [s2 EXCEPT ![bin] = RAdd(@, RMul(w, w))]]

\* the loop of TH1::DoFillN from entry i on
RECURSIVE FillFrom(_, _, _, _)
FillFrom(h, xs, ws, i) ==
    IF i > Len(xs) THEN h ELSE FillFrom(Fill(h, xs[i], ws[i]), xs, ws, i + 1)

\* TH1::FillN(len(x), x, w)
FillN(h, xs, ws) == FillFrom(h, xs, ws, 1)

\* TH1::SetBinContent(bin, val)
SetBinContent(h, bin, val) == [h EXCEPT !.content[bin] = RInt(val)]

\* TH1::GetBinError squared: sumw2 if allocated, else |content|
GetBinError2(h, bin) ==
    IF h.sumw2 = NoValue THEN Rat(Abs(h.content[bin][1]), h.content[bin][2])
    ELSE h.sumw2[bin]

\* np.histogram(x, bins=nbins, range=(lo, hi)): counts of the nbins bins; the
\* last bin is closed, it holds x = hi
np_histogram(xs, nbins, lo, hi) ==
    [i \in 1..nbins |->
        Cardinality({k \in 1..Len(xs) :
            /\ lo <= xs[k] /\ xs[k] <= hi
            /\ Min(nbins, 1 + (nbins * (xs[k] - lo)) \div (hi - lo)) = i})]

\* data_hist.SetBinContent(i + 1, val) for i, val in enumerate(data_x)
SetBins(h, counts) ==
    [h EXCEPT !.content =
        [b \in DOMAIN h.content |->
            IF b \in 1..Len(counts) THEN SetBinContent(h, b, counts[b]).content[b]
            ELSE h.content[b]]]

\* (variant: one key for all Monte Carlo categories)
HistKeyShared(s) ==
    CASE s = "data" -> "data_hist"
      [] s = SignalName -> "signal_hist"
      [] OTHER -> "mc_hist_"

\* the key a category's histogram is written under
HistKey(s) ==
    CASE s = "data" -> "data_hist"
      [] s = SignalName -> "signal_hist"
      [] OTHER -> "mc_hist_" \o s

\* root_file.WriteTObject(h, key)
WriteTObject(f, h, key) == (key :> h) @@ f

(***************************************************************************)
(* save_histograms_to_root(data).                                          *)
(***************************************************************************)
\* root_file = TFile(..., "RECREATE"); data_hist from np.histogram
SaveData ==
    /\ pc = "save_data"
    /\ LET data_x == np_histogram(Column(result["data"], "mllll"), n_bins, xmin, xmax)
           data_hist == SetBins(TH1F(n_bins, xmin, xmax), data_x)
       IN  root_file' = WriteTObject(NoValue, data_hist, HistKey("data"))
    /\ pc' = "save_signal"
    /\ UNCHANGED <<stdout, InputVars, GetDataVars, ReadFileVars, err, handles, result, mc_idx>>

\* signal_hist.FillN(len(signal_x), signal_x, signal_weights)
SaveSignal ==
    /\ pc = "save_signal"
    /\ LET signal_x == Column(result[SignalName], "mllll")
           signal_weights == Column(result[SignalName], "totalWeight")
           signal_hist == FillN(TH1F(n_bins, xmin, xmax), signal_x, signal_weights)
       IN  root_file' = WriteTObject(root_file, signal_hist, HistKey(SignalName))
    /\ mc_idx' = 1
    /\ pc' = "save_mc"
    /\ UNCHANGED <<stdout, InputVars, GetDataVars, ReadFileVars, err, handles, result>>

\* for s in samples: a category that is neither data nor the signal
SaveMC ==
    /\ pc = "save_mc"
    /\ mc_idx <= Len(CategoryOrder)
    /\ LET s == CategoryOrder[mc_idx]
       IN  IF s \notin {"data", SignalName}
           THEN LET mc_x == Column(result[s], "mllll")
                    mc_weights == Column(result[s], "totalWeight")
                    mc_hist == FillN(TH1F(n_bins, xmin, xmax), mc_x, mc_weights)
                IN  root_file' = WriteTObject(root_file, mc_hist, HistKey(s))
           ELSE root_file' = root_file
    /\ mc_idx' = mc_idx + 1
    /\ UNCHANGED <<stdout, InputVars, GetDataVars, ReadFileVars, pc, err, handles, result>>

\* root_file.Close()
CloseRootFile ==
    /\ pc = "save_mc"
    /\ mc_idx > Len(CategoryOrder)
    /\ pc' = "done"
    /\ UNCHANGED <<stdout, InputVars, GetDataVars, ReadFileVars, ExportVars, err, handles>>

(***************************************************************************)
(* The notebook: data = get_data_from_files(); save_histograms_to_root.    *)
(***************************************************************************)
Init ==
    /\ fraction \in Fractions
    /\ step_size \in StepSizes
    /\ \E c \in FileContents : files = [v \in SampleIds |-> c]
    /\ infos \in InfoTables
    /\ infos # InfosComplete => fraction = <<1, 1>>
    /\ pc = "for_s"
    /\ err = "none"
    /\ s_idx = 1
    /\ val_idx = 1
    /\ frames = <<>>
    /\ data = NoValue
    /\ path = ""
    /\ numevents = 0
    /\ xsec_weight = NoValue
    /\ data_all = <<>>
    /\ entry = 0
    /\ handles = 0
    /\ nIn_sum = 0
    /\ loop = NoValue
    /\ result = NoValue
    /\ mc_idx = 1
    /\ root_file = NoValue
    /\ stdout = <<>>

Next ==
    \/ ForCategory
    \/ ResolvePath
    \/ ResolvePathKeyError
    \/ ConcatCategory
    \/ ReturnData
    \/ OpenTreeFails
    \/ OpenTreeZeroDivision
    \/ OpenTree
    \/ IterateBatch
    \/ IterateBatchIndexError
    \/ ExhaustIterate
    \/ ReturnFile
    \/ ReturnFileValueError
    \/ SaveData
    \/ SaveSignal
    \/ SaveMC
    \/ CloseRootFile

Spec == Init /\ [][Next]_vars

(***************************************************************************)
(* Properties.                                                             *)
(***************************************************************************)
First4(xs) == SubSeq(xs, 1, 4)

PassCharge(ev) == SumSeq(First4(ev.lep_charge)) = 0

PassType(ev) == SumSeq(First4(ev.lep_type)) \in {44, 48, 52}

PassBoth(ev) == PassCharge(ev) /\ PassType(ev)

\* the events of an array without their derived mass
StripMass(d) ==
    [i \in 1..Len(d) |-> [f \in DOMAIN d[i] \ {"mllll"} |-> d[i][f]]]

\* the loop body ran to its end on the last batch
BodyDone == loop # NoValue /\ loop.out # NoValue

\* C1: a batch is filtered to exactly the events that pass both the charge
\* and the flavour predicate: the charge cut followed by the flavour cut on
\* the filtered batch gives the same sequence as one filter of the original
\* batch by the AND of the two not-rejected masks, and as the two cuts in
\* the other order; the survivors keep their relative order.
C1_SequentialCutsAreConjunction ==
    BodyDone =>
        LET w    == loop.weighted
            keep == [i \in 1..Len(w) |-> PassCharge(w[i]) /\ PassType(w[i])]
            got  == StripMass(loop.out)
        IN  /\ got = Keep(w, [i \in 1..Len(w) |-> ~keep[i]])
            /\ got = SelectSeq(SelectSeq(w, PassType), PassCharge)
            /\ got = SelectSeq(SelectSeq(w, PassCharge), PassType)
            /\ \A i \in 1..Len(w) :
                   keep[i] <=> \E j \in 1..Len(got) : got[j] = w[i]
            /\ \A j, k \in 1..Len(got) : j < k => got[j].entry < got[k].entry

\* a batch of two events, one kept and one rejected, went through the cuts
C1_Witness ==
    /\ BodyDone
    /\ Len(loop.weighted) = 2
    /\ Len(loop.out) = 1
    /\ \E i \in 1..2 : PassCharge(loop.weighted[i]) /\ ~PassType(loop.weighted[i])

\* cut_lep_charge on every arrangement of four unit charges, with and
\* without a fifth lepton
ChargeCutOnAllArrangements ==
    \A c \in [1..4 -> {-1, 1}] : \A extra \in {<<>>, <<1>>, <<-1>>, <<1, 1>>} :
        cut_lep_charge(<<c \o extra>>)[1] <=> (c[1] + c[2] + c[3] + c[4] # 0)

\* C2: cut_lep_charge rejects an event iff the charges of its first four
\* leptons do not sum to zero, however they are arranged: +-+- and ++-- pass,
\* +++- is rejected, and leptons after the fourth have no influence.
C2_ChargeCut ==
    /\ ChargeCutOnAllArrangements
    /\ BodyDone =>
           \A i \in 1..Len(loop.weighted) :
               LET q == loop.weighted[i].lep_charge
               IN  /\ loop.rej_charge[i] <=> SumSeq(First4(q)) # 0
                   /\ First4(q) \in {<<1, -1, 1, -1>>, <<1, 1, -1, -1>>}
                          => ~loop.rej_charge[i]
                   /\ First4(q) = <<1, 1, 1, -1>> => loop.rej_charge[i]

\* a batch with a +++- event (rejected) and a five-lepton event whose first
\* four charges balance while all five do not (not rejected)
C2_Witness ==
    /\ BodyDone
    /\ \E i, j \in 1..Len(loop.weighted) :
           /\ loop.weighted[i].lep_charge = <<1, 1, 1, -1>>
           /\ loop.rej_charge[i]
           /\ Len(loop.weighted[j].lep_charge) = 5
           /\ SumSeq(loop.weighted[j].lep_charge) # 0
           /\ ~loop.rej_charge[j]

\* cut_lep_type on every four type codes among 10, 11, 13, 14, 15
TypeCutOnAllCodes ==
    \A t \in [1..4 -> {10, 11, 13, 14, 15}] :
        LET passes == ~cut_lep_type(<<t>>)[1]
            nEle   == Cardinality({i \in 1..4 : t[i] = 11})
        IN  /\ passes <=> (t[1] + t[2] + t[3] + t[4] \in {44, 48, 52})
            /\ (\A i \in 1..4 : t[i] \in {11, 13}) => (passes <=> nEle \in {0, 2, 4})

\* C3: cut_lep_type lets an event pass iff the type codes of its first four
\* leptons sum to 44, 48 or 52; every other sum is rejected; with codes in
\* {11, 13} the passing events are exactly 4e, 2e2mu and 4mu.
C3_TypeCut ==
    /\ TypeCutOnAllCodes
    /\ BodyDone =>
           \A i \in 1..Len(loop.charged) :
               LET t    == First4(loop.charged[i].lep_type)
                   nEle == Cardinality({k \in 1..4 : t[k] = 11})
               IN  /\ ~loop.rej_type[i] <=> SumSeq(t) \in {44, 48, 52}
                   /\ (\A k \in 1..4 : t[k] \in {11, 13})
                          => (~loop.rej_type[i] <=> nEle \in {0, 2, 4})

\* a batch with a 3e1mu event (sum 46, rejected) and a 2e2mu event (kept)
C3_Witness ==
    /\ BodyDone
    /\ \E i, j \in 1..Len(loop.charged) :
           /\ SumSeq(First4(loop.charged[i].lep_type)) = 46
           /\ loop.rej_type[i]
           /\ SumSeq(First4(loop.charged[j].lep_type)) = 48
           /\ ~loop.rej_type[j]

\* the four scale-factor columns, and the orders they can be multiplied in
ScaleFactors ==
    <<"scaleFactor_PILEUP", "scaleFactor_ELE", "scaleFactor_MUON",
      "scaleFactor_LepTRIGGER">>

Orders == {p \in [1..4 -> 1..4] : \A i, j \in 1..4 : p[i] = p[j] => i = j}

ProductInOrder(ev, p) ==
    RMul(RMul(RMul(ev[ScaleFactors[p[1]]], ev[ScaleFactors[p[2]]]),
              ev[ScaleFactors[p[3]]]), ev[ScaleFactors[p[4]]])

\* the product of the four scale factors of every event a file can hold is
\* the same in all 24 orders
ProductSameInEveryOrder ==
    \A ev \in EventPool : \A p, q \in Orders :
        ProductInOrder(ev, p) = ProductInOrder(ev, q)

\* C4: every event of a simulated sample gets totalWeight = crossSectionWeight
\* x mcWeight x the four scale factors, in whatever order the scale factors
\* are multiplied; crossSectionWeight = lumi x 1000 x xsec / (sumw x red_eff)
\* is fixed per sample and does not depend on fraction.
C4_TotalWeight ==
    /\ ProductSameInEveryOrder
    /\ (pc \in {"iterate", "return"} /\ ~ContainsData(CurVal)) =>
           /\ xsec_weight # NoValue
           /\ xsec_weight[1] * (infos[CurVal].sumw * infos[CurVal].red_eff)
                  = xsec_weight[2] * (lumi * 1000 * infos[CurVal].xsec)
    /\ (loop # NoValue /\ ~ContainsData(loop.sample)) =>
           \A i \in 1..Len(loop.weighted) :
               LET ev == loop.weighted[i]
               IN  ev.totalWeight =
                       RMul(xsec_weight,
                            RMul(ev.mcWeight, ProductInOrder(ev, <<4, 3, 2, 1>>)))

\* a simulated batch read with fraction 1/2 that holds an event whose scale
\* factors are not all 1
C4_Witness ==
    /\ loop # NoValue
    /\ ~ContainsData(loop.sample)
    /\ fraction = <<1, 2>>
    /\ \E i \in 1..Len(loop.weighted) :
           /\ loop.weighted[i].scaleFactor_PILEUP = Half
           /\ loop.weighted[i].scaleFactor_MUON = Rat(3, 2)
           /\ loop.weighted[i].totalWeight
                  = RMul(xsec_weight, Rat(3, 4))

\* C5: when the batch loop of a file ends, the batches together held exactly
\* floor(numevents x fraction) events, the last batch being cut short if
\* needed; no batch ever takes the total beyond that.
C5_DeliveredEvents ==
    LET cap == (numevents * fraction[1]) \div fraction[2]
    IN  /\ pc = "return" => nIn_sum = cap
        /\ pc = "iterate" => nIn_sum <= cap
        /\ (pc = "iterate" /\ loop # NoValue) => loop.nIn <= step_size

\* a file of two events read with fraction 1/2 in batches of two: the only
\* batch was cut to one event
C5_Witness ==
    /\ pc = "return"
    /\ numevents = 2
    /\ fraction = <<1, 2>>
    /\ step_size = 2
    /\ nIn_sum = 1
    /\ loop.nIn = 1

\* the histogram written for a category
HistOf(s) == root_file[HistKey(s)]

\* the weight an event enters its category's histogram with
EntryWeight(s, ev) == IF s = "data" THEN One ELSE ev.totalWeight

\* sum of the contents of the exported bins 1..n_bins
ExportedSum(h) == RSum([b \in 1..h.nbins |-> h.content[b]])

InRange(ev) == xmin <= ev.mllll /\ ev.mllll < xmax

\* C6 (as claimed): for every category the exported bins sum to the weights
\* of the surviving events with mass in [70, 180); an event at exactly 180
\* is in no bin.
C6_BinSumIsHalfOpenRangeSum ==
    pc = "done" =>
        \A s \in Categories :
            LET inside == SelectSeq(result[s], InRange)
            IN  ExportedSum(HistOf(s))
                    = RSum([i \in 1..Len(inside) |-> EntryWeight(s, inside[i])])

\* bin b of the n_bins equal bins over [xmin, xmax) holds the mass of ev; the
\* last bin of the observed-data histogram also holds a mass of exactly xmax
\* (np.histogram closes its last bin; C6 is about that edge)
InBin(s, ev, b) ==
    LET scaled == n_bins * (ev.mllll - xmin)
        width  == xmax - xmin
    IN  \/ (b - 1) * width <= scaled /\ scaled < b * width
        \/ s = "data" /\ b = n_bins /\ ev.mllll = xmax

\* the bin of the axis that covers the mass 125
Bin125 == CHOOSE b \in 1..n_bins : InBin(SignalName, [mllll |-> 125], b)

\* twenty simulated events of mass 125 and weight 0.1 (two files of ten)
\* filled into an empty histogram
TwentyEventsOfWeightTenth ==
    LET h == FillN(TH1F(n_bins, xmin, xmax),
                   [i \in 1..20 |-> 125], [i \in 1..20 |-> Rat(1, 10)])
    IN  /\ h.content[Bin125] = RInt(2)
        /\ GetBinError2(h, Bin125) = Rat(2, 10)
        /\ \A b \in (0..(n_bins + 1)) \ {Bin125} : h.content[b] = RInt(0)

\* C7: in the exported file the observed-data histogram holds the number of
\* events per bin with squared uncertainty equal to that count; every
\* simulation histogram holds the per-bin sum of totalWeight with squared
\* uncertainty the per-bin sum of totalWeight^2; the events of all files of
\* a category add into the same bins (twenty events of mass 125 and weight
\* 0.1 give content 2.0 and squared uncertainty 0.2).
C7_BinContentsAndErrors ==
    /\ TwentyEventsOfWeightTenth
    /\ pc = "done" =>
           \A s \in Categories : \A b \in 1..n_bins :
               LET members == SelectSeq(result[s], LAMBDA ev : InBin(s, ev, b))
                   w  == [i \in 1..Len(members) |-> EntryWeight(s, members[i])]
                   w2 == [i \in 1..Len(members) |-> RMul(w[i], w[i])]
                   h  == HistOf(s)
               IN  /\ h.content[b] = RSum(w)
                   /\ GetBinError2(h, b) = RSum(w2)
                   /\ s = "data" => h.content[b] = RInt(Len(members))

\* every file holds one 4e event of mass 125: the four data files give 4
\* events, the four signal files 4 x 0.1 with squared uncertainty 4 x 0.01
C7_Witness ==
    /\ pc = "done"
    /\ HistOf("data").content[Bin125] = RInt(4)
    /\ GetBinError2(HistOf("data"), Bin125) = RInt(4)
    /\ HistOf(SignalName).content[Bin125] = Rat(4, 10)
    /\ GetBinError2(HistOf(SignalName), Bin125) = Rat(4, 100)

SameBinning(h) ==
    /\ h.nbins = 36 /\ h.xmin = 70 /\ h.xmax = 180
    /\ DOMAIN h.content = 0..37

\* C8 (as claimed): the file holds exactly one histogram per category, under
\* the category's name, all with 36 bins over [70, 180].
C8_KeyedByCategoryName ==
    pc = "done" =>
        /\ DOMAIN root_file = Categories
        /\ \A k \in DOMAIN root_file : SameBinning(root_file[k])

\* the keys save_histograms_to_root is to write the categories under
ExpectedKey(s) ==
    CASE s = "data" -> "data_hist"
      [] s = "Background $Z,t\\bar{t}$" -> "mc_hist_Background $Z,t\\bar{t}$"
      [] s = "Background $ZZ^*$" -> "mc_hist_Background $ZZ^*$"
      [] s = SignalName -> "signal_hist"

\* C8 (amended): the file holds exactly one histogram per category, under a
\* key derived from the category: data_hist for data, signal_hist for the
\* signal, mc_hist_<category name> for each other category; all have 36 bins
\* over [70, 180], and the one under a category's key is filled from that
\* category's events.
C8_OneHistogramPerCategory ==
    pc = "done" =>
        /\ DOMAIN root_file = {ExpectedKey(s) : s \in Categories}
        /\ Cardinality(DOMAIN root_file) = Cardinality(Categories)
        /\ \A k \in DOMAIN root_file : SameBinning(root_file[k])
        /\ \A s \in Categories \ {"data"} :
               LET h == root_file[ExpectedKey(s)]
               IN  RSum([i \in 1..(h.nbins + 2) |-> h.content[i - 1]])
                       = RSum(Column(result[s], "totalWeight"))

\* the export ended with two background histograms that differ
C8_Witness ==
    /\ pc = "done"
    /\ Cardinality(DOMAIN root_file) = 4
    /\ root_file["mc_hist_Background $ZZ^*$"]
           # root_file["mc_hist_Background $Z,t\\bar{t}$"]
    /\ root_file["signal_hist"].content[Bin125] # RInt(0)

\* C9 (as claimed): a batch with an event of fewer than four leptons ends the
\* run with the dedicated InsufficientLeptons error and no mass is computed.
C9_ShortEventRaisesInsufficientLeptons ==
    (loop # NoValue /\ ShortEvent(loop.weighted)) =>
        /\ pc = "raised"
        /\ err = "InsufficientLeptons"
        /\ loop.out = NoValue

\* what may go wrong while a sample is resolved and opened
ReadErrors == {"OSError", "KeyError", "ZeroDivisionError"}

\* C10: when a sample of a category cannot be read (its file cannot be
\* opened, or its metadata entry is absent or unusable) the error leaves
\* get_data_from_files: nothing is returned or exported and the category
\* gets no entry in data; a category is only ever assembled from the arrays
\* of all its samples, none skipped.
C10_FailFast ==
    /\ [](pc = "raised" =>
            /\ err # "none"
            /\ result = NoValue /\ root_file = NoValue
            /\ CurS \notin DOMAIN data)
    /\ [](pc = "for_val" => Len(frames) = val_idx - 1)
    /\ [][((pc = "for_val" /\ pc' \notin {"open", "for_s"})
            \/ (pc = "open" /\ pc' # "iterate"))
          => (pc' = "raised" /\ err' \in ReadErrors /\ data' = data)]_vars
    /\ [][data' # data =>
            /\ pc = "for_val" /\ Len(frames) = Len(samples[CurS])
            /\ DOMAIN data' = DOMAIN data \cup {CurS}]_vars

\* the file of a later sample of a category cannot be opened after an
\* earlier category was assembled and an earlier sample of this one was read
C10_Witness ==
    /\ pc = "raised"
    /\ err = "OSError"
    /\ Len(frames) >= 1
    /\ DOMAIN data # {}

\* C11: the file handle of read_file is open only while the batches of that
\* file are streamed: it is opened once per file, with no other handle open,
\* and closed exactly once, when the loop ends or when an error leaves the
\* with block; no handle is open when read_file has returned or raised, when
\* the next file is opened, or at the end of the run.
C11_HandleReleased ==
    /\ [](handles = IF pc = "iterate" THEN 1 ELSE 0)
    /\ [][handles' > handles =>
            handles = 0 /\ handles' = 1 /\ pc = "open" /\ pc' = "iterate"]_vars
    /\ [][handles' < handles =>
            /\ handles = 1 /\ handles' = 0 /\ pc = "iterate"
            /\ pc' \in {"return", "raised"}]_vars
    /\ [][(pc = "open" /\ pc' = "raised") => handles' = 0]_vars

\* a file raised in its second batch, after its first batch went through the
\* loop body: the handle is closed
C11_Witness ==
    /\ pc = "raised"
    /\ err = "IndexError"
    /\ Len(data_all) = 1
    /\ entry = 2
    /\ handles = 0

\* the position of a sample in the list of its category
SampleIndex(s, v) == CHOOSE j \in 1..Len(samples[s]) : samples[s][j] = v

\* event a comes before event b in file-then-entry order of category s
Before(s, a, b) ==
    \/ SampleIndex(s, a.sample) < SampleIndex(s, b.sample)
    \/ a.sample = b.sample /\ a.entry < b.entry

\* the entries of the file of v that are delivered and pass both cuts
SurvivingEntries(v) ==
    {k \in 1..((Len(files[v]) * fraction[1]) \div fraction[2]) :
        PassBoth(files[v][k])}

\* the stored columns of an event of an array
Stored(ev) == [f \in DOMAIN ev \ {"sample", "entry", "totalWeight", "mllll"} |-> ev[f]]

\* C12: the array of a category holds the surviving events of its samples
\* in file-then-batch order: samples in the order of the category's list,
\* within a sample the entries in stored order across the batches; every
\* surviving event of every sample of the category is there exactly once,
\* unchanged, and no event of another category's sample is.
C12_FileThenBatchOrder ==
    \A s \in DOMAIN data :
        LET d == data[s]
            listed == {samples[s][j] : j \in 1..Len(samples[s])}
        IN  /\ \A i \in 1..Len(d) :
                   /\ d[i].sample \in listed
                   /\ d[i].entry \in SurvivingEntries(d[i].sample)
                   /\ Stored(d[i]) = files[d[i].sample][d[i].entry]
            /\ \A i, j \in 1..Len(d) : i < j => Before(s, d[i], d[j])
            /\ \A v \in listed : \A k \in SurvivingEntries(v) :
                   \E i \in 1..Len(d) : d[i].sample = v /\ d[i].entry = k

\* a category of three samples was assembled from files of two different
\* surviving events each, read in batches of one event
C12_Witness ==
    /\ "Background $Z,t\\bar{t}$" \in DOMAIN data
    /\ step_size = 1
    /\ LET d == data["Background $Z,t\\bar{t}$"]
       IN  /\ Len(d) = 6
           /\ d[1].mllll # d[2].mllll
           /\ d[3].sample = "Zmumu" /\ d[3].entry = 1

\* the normalization record of a simulated sample has a zero divisor
ZeroDivisor(v) ==
    /\ ~ContainsData(v)
    /\ v \in DOMAIN infos
    /\ infos[v].sumw = 0 \/ infos[v].red_eff = 0

\* the events of the arrays read_file and get_data_from_files hold
HeldEvents ==
    LET arrays == {data[s] : s \in DOMAIN data}
                      \cup {frames[i] : i \in 1..Len(frames)}
                      \cup {data_all[i] : i \in 1..Len(data_all)}
                      \cup (IF loop = NoValue THEN {} ELSE {loop.weighted})
    IN  UNION {{a[i] : i \in 1..Len(a)} : a \in arrays}

\* C13: for a simulated sample whose record has sumw = 0 or red_eff = 0 the
\* cross-section weight is never computed: once its file is open the run
\* ends with the division-by-zero error before a batch is read, no event of
\* the sample is held anywhere, and no weight has a zero denominator.
C13_ZeroDivisorRaises ==
    /\ [](pc \in {"iterate", "return"} => ~ZeroDivisor(CurVal))
    /\ [](err = "ZeroDivisionError" =>
            /\ pc = "raised" /\ ZeroDivisor(CurVal)
            /\ data_all = <<>> /\ loop = NoValue)
    /\ [](xsec_weight # NoValue => xsec_weight[2] > 0)
    /\ [](\A ev \in HeldEvents :
            /\ ~ZeroDivisor(ev.sample)
            /\ "totalWeight" \in DOMAIN ev => ev.totalWeight[2] > 0)
    /\ [][(pc = "open" /\ ZeroDivisor(CurVal)) =>
            /\ pc' = "raised"
            /\ err' \in {"ZeroDivisionError", "OSError"}
            /\ xsec_weight' = xsec_weight]_vars
    /\ [][err' = "ZeroDivisionError" => pc = "open" /\ ZeroDivisor(CurVal)]_vars

\* the third sample of a category has sumw = 0: the run ends there, after
\* the two samples before it were weighted and kept events
C13_Witness ==
    /\ pc = "raised"
    /\ err = "ZeroDivisionError"
    /\ infos[CurVal].sumw = 0
    /\ numevents >= 1
    /\ Len(frames) = 2
    /\ Len(frames[2]) >= 1
    /\ frames[2][1].totalWeight # RInt(0)

\* leptons an event may hold after its fourth: <<pt, phi, E, charge, type>>
ExtraLeptons ==
    {<<50000, 0, 50000, 1, 11>>, <<20000, 180, 25000, -1, 13>>,
     <<7000, 0, 9000, 1, 15>>}

\* what can follow the first four leptons: nothing, one or two extra leptons
\* in either order
Tails == {<<>>} \cup {<<a>> : a \in ExtraLeptons}
             \cup {<<a, b>> : a, b \in ExtraLeptons}

\* the event with the leptons after its fourth replaced by those of tail
WithTail(ev, tail) ==
    [ev EXCEPT !.lep_pt     = First4(@) \o [i \in 1..Len(tail) |-> tail[i][1]],
               !.lep_phi    = First4(@) \o [i \in 1..Len(tail) |-> tail[i][2]],
               !.lep_E      = First4(@) \o [i \in 1..Len(tail) |-> tail[i][3]],
               !.lep_charge = First4(@) \o [i \in 1..Len(tail) |-> tail[i][4]],
               !.lep_type   = First4(@) \o [i \in 1..Len(tail) |-> tail[i][5]]]

\* mass, charge decision and flavour decision of one event
Decisions(ev) ==
    <<calc_mllll(ev), cut_lep_charge(<<ev.lep_charge>>)[1],
      cut_lep_type(<<ev.lep_type>>)[1]>>

\* every event of the pool with four leptons or more gives the same mass and
\* the same two decisions whatever follows its first four leptons
SameWithEveryTail ==
    \A ev \in {e \in EventPool : Len(e.lep_pt) >= 4} : \A tail \in Tails :
        /\ Decisions(WithTail(ev, tail)) = Decisions(WithTail(ev, <<>>))
        /\ Decisions(ev) = Decisions(WithTail(ev, <<>>))

\* C14: for an event with at least four leptons the mass, the charge
\* decision and the flavour decision are those of its first four leptons in
\* stored order: leptons added, removed or reordered after the fourth change
\* neither the mass nor whether the event survives.
C14_FirstFourOnly ==
    /\ SameWithEveryTail
    /\ BodyDone =>
           /\ \A i \in 1..Len(loop.weighted) :
                  loop.rej_charge[i]
                      = cut_lep_charge(<<First4(loop.weighted[i].lep_charge)>>)[1]
           /\ \A i \in 1..Len(loop.charged) :
                  loop.rej_type[i]
                      = cut_lep_type(<<First4(loop.charged[i].lep_type)>>)[1]
           /\ \A i \in 1..Len(loop.out) :
                  /\ loop.out[i].mllll = calc_mllll(WithTail(loop.out[i], <<>>))
                  /\ PassBoth(WithTail(loop.out[i], <<>>))
           /\ \A i \in 1..Len(loop.weighted) :
                  PassBoth(WithTail(loop.weighted[i], <<>>))
                      => \E j \in 1..Len(loop.out) :
                             loop.out[j].entry = loop.weighted[i].entry

\* a five-lepton event whose fifth lepton carries energy and an unbalanced
\* charge survived with the mass of its first four leptons
C14_Witness ==
    /\ BodyDone
    /\ \E i \in 1..Len(loop.out) :
           /\ Len(loop.out[i].lep_E) = 5
           /\ loop.out[i].lep_E[5] > 0
           /\ SumSeq(loop.out[i].lep_charge) # 0
           /\ loop.out[i].mllll = 69

\* the lines printed since read_file announced the current file
FileReports ==
    LET last == CHOOSE i \in 1..Len(stdout) :
                    /\ stdout[i][1] = "Processing"
                    /\ \A j \in (i + 1)..Len(stdout) : stdout[j][1] # "Processing"
    IN  SubSeq(stdout, last + 1, Len(stdout))

\* C15 (as claimed): one report per file read, giving the number of events
\* delivered from the file, floor(numevents x fraction), and the number of
\* events the file contributes.
C15_ReportedPerFile ==
    pc = "return" =>
        FileReports =
            <<<<"nIn nOut", (numevents * fraction[1]) \div fraction[2],
                Len(Concatenate(data_all))>>>>

\* C15 (amended): one report per batch that went through the loop body,
\* printed after the batch was appended: nIn is the number of events of the
\* batch, nOut the number of events it contributes, nOut <= nIn; when the
\* loop of a file has ended the nIn add up to floor(numevents x fraction) and
\* the nOut to the number of events the file holds for its category; a step
\* that raises prints no counts and the error ends the run.
C15_ReportedPerBatch ==
    /\ [](pc \in {"iterate", "return"} =>
            LET r == FileReports
            IN  /\ Len(r) = Len(data_all)
                /\ \A i \in 1..Len(r) :
                       /\ r[i][1] = "nIn nOut"
                       /\ r[i][3] = Len(data_all[i])
                       /\ r[i][3] <= r[i][2]
                /\ SumSeq([i \in 1..Len(r) |-> r[i][2]]) = entry
                /\ (r # <<>> /\ loop # NoValue) =>
                       r[Len(r)] = <<"nIn nOut", loop.nIn, Len(loop.out)>>)
    /\ [](pc = "return" =>
            LET r == FileReports
            IN  /\ SumSeq([i \in 1..Len(r) |-> r[i][2]])
                       = (numevents * fraction[1]) \div fraction[2]
                /\ SumSeq([i \in 1..Len(r) |-> r[i][3]])
                       = Cardinality(SurvivingEntries(CurVal)))
    /\ [](pc = "raised" <=> err # "none")
    /\ [][pc' = "raised" =>
            stdout' \in {stdout, Append(stdout, <<"Processing", CurVal>>)}]_vars
    /\ [][pc = "raised" => pc' = "raised"]_vars

\* a file of two events read in two batches: two reports, the first batch
\* kept its event, the second lost it
C15_Witness ==
    /\ pc = "return"
    /\ step_size = 1
    /\ numevents = 2
    /\ FileReports = <<<<"nIn nOut", 1, 1>>, <<"nIn nOut", 1, 0>>>>

\* the test of get_data_from_files on the category and the test of read_file
\* on the sample identifier give the same answer for every listed sample
TestsAgree ==
    \A s \in Categories : \A j \in 1..Len(samples[s]) :
        (s = "data") <=> ContainsData(samples[s][j])

\* C16: for every category and every sample of its list, `s == 'data'` in
\* get_data_from_files and `'data' in sample` in read_file agree; a file is
\* opened under Data/ exactly for the data category; a sample of the data
\* category is never looked up in the metadata table and binds no
\* cross-section weight; every event of another category carries a
\* totalWeight in every array, and so when the exporter reads it, while the
\* events of the data category carry none.
C16_ObservedTestsAgree ==
    /\ [](TestsAgree)
    /\ [](pc \in {"open", "iterate", "return"} =>
            /\ (SubSeq(path, 1, 5) = "Data/") <=> (CurS = "data")
            /\ (SubSeq(path, 1, 6) = "MC/mc_") <=> ~ContainsData(CurVal))
    /\ [](\A ev \in HeldEvents :
            ("totalWeight" \in DOMAIN ev) <=> ~ContainsData(ev.sample))
    /\ [](result # NoValue =>
            \A s \in Categories : \A i \in 1..Len(result[s]) :
                ("totalWeight" \in DOMAIN result[s][i]) <=> (s # "data"))
    /\ [][(pc \in {"for_val", "open"} /\ s_idx <= Len(CategoryOrder)
             /\ CurS = "data") =>
            /\ err' \notin {"KeyError", "ZeroDivisionError"}
            /\ xsec_weight' = xsec_weight]_vars

\* the export is over: the data category holds events without a weight, the
\* signal category events with one, and the metadata table has no entry
\* for any data sample
C16_Witness ==
    /\ pc = "done"
    /\ Len(result["data"]) >= 4
    /\ "totalWeight" \notin DOMAIN result["data"][1]
    /\ Len(result[SignalName]) >= 4
    /\ result[SignalName][1].totalWeight # RInt(0)
    /\ \A j \in 1..4 : samples["data"][j] \notin DOMAIN infos

\* C17 (as claimed): a file whose batch loop ended with nothing kept, because
\* no batch was yielded or every event was rejected, gives an empty array and
\* no error: read_file never raises once the loop has ended.
C17_EmptyFileReturnsEmpty ==
    ~(pc = "raised" /\ err = "ValueError" /\ handles = 0 /\ data_all = <<>>)

====
